---- MODULE Spec2Model ----
(***************************************************************************)
(* One run of the dashboard script dashboard.py over one sales.csv.        *)
(*                                                                         *)
(* The script is a straight line of blocks; every block is one action and  *)
(* pc names the block that runs next.  An uncaught exception ends the run  *)
(* (pc = "error", error = the exception's type).                           *)
(*                                                                         *)
(* Encoding of values                                                      *)
(*   - a data frame is a function from column names to columns, a column   *)
(*     is a sequence indexed by the row number;                            *)
(*   - money is kept in cents, so that (min + max) / 2 and round(2) are    *)
(*     exact integers; quantile edges are kept multiplied by the           *)
(*     denominator of their interpolation weight;                          *)
(*   - a ratio is a reduced fraction [num, den], den = 0 standing for the  *)
(*     float results inf and nan;                                          *)
(*   - NaN is the missing value of a numeric column, NaNLabel the missing  *)
(*     value of a categorical one.                                         *)
(***************************************************************************)
EXTENDS Integers, Sequences, FiniteSets, TLC

VARIABLES
    csv,               \* the file sales.csv: [header, rows]
    rerun,             \* FALSE: first run of the session (widgets return defaults)
    pc,                \* the block of the script that runs next
    error,             \* "none" or the type of the uncaught exception
    page,              \* the elements emitted to the page so far
    df,                \* the data frame
    kpis,              \* the main metrics
    gallery_metrics,
    gallery_summary,   \* the means over the galleries
    artist_metrics,
    year_stats,
    crecimiento,       \* the four growth metrics
    premium,           \* premium_threshold, premium_works and their metrics
    segment_stats,
    region_stats,
    artist_type_stats,
    ventas,            \* ventas_stats, obras_vendidas, tasa_venta
    selected,          \* the widget variables that are bound, by name
    mask,
    df_filtered,
    resumen            \* the summary metrics of the filtered subset

vars == <<csv, rerun, pc, error, page, df, kpis, gallery_metrics, gallery_summary,
          artist_metrics,
          year_stats, crecimiento, premium, segment_stats, region_stats,
          artist_type_stats, ventas, selected, mask, df_filtered, resumen>>

-----------------------------------------------------------------------------
(* Bounds of the model *)

MaxRowsDerive == 4
MaxRowsYear == 3
MaxRowsFilter == 2
MaxSliderSteps == 2
MaxRowsSchema == 2
MaxRowsRound == 4

-----------------------------------------------------------------------------
(* Values *)

NaN == -1
NaNLabel == "NaN"
Cent == 100

Required == {"Artista", "Galeria", "PrecioMinimo", "PrecioMaximo", "Anio"}
Optional == {"Pais", "Tipo_Artista", "Estado_Venta"}

\* every string that can be a group key, in lexicographic order
LexOrder == <<"A", "B", "Basico", "C", "CN", "Emergente", "Establecido", "G1", "G2",
              "HK", "Medio", "Premium", "Reservada", "Ultra Premium", "Vendida">>

Abs(x) == IF x < 0 THEN -x ELSE x

RECURSIVE GCD(_, _)
GCD(a, b) == IF b = 0 THEN a ELSE GCD(b, a % b)

\* the float a / b
Ratio(a, b) ==
    IF b = 0 THEN [num |-> 0, den |-> 0]
    ELSE LET g == GCD(Abs(a), Abs(b))
         IN  IF g = 0 THEN [num |-> 0, den |-> 1]
             ELSE [num |-> a \div g, den |-> b \div g]

\* the float (a / b) * 100
Percent(a, b) ==
    LET r == Ratio(a, b)
        g == GCD(100, r.den)
    IN  IF r.den = 0 THEN r
        ELSE [num |-> (100 \div g) * r.num, den |-> r.den \div g]

\* round half to even of num / den, num >= 0, den > 0
RoundHalfEven(num, den) ==
    LET q == num \div den
        r == num % den
    IN  IF 2 * r < den THEN q
        ELSE IF 2 * r > den THEN q + 1
        ELSE IF q % 2 = 0 THEN q ELSE q + 1

Range(s) == {s[i] : i \in DOMAIN s}

Min(S) == CHOOSE x \in S : \A y \in S : x <= y
Max(S) == CHOOSE x \in S : \A y \in S : x >= y

RECURSIVE SortedInts(_)
SortedInts(S) == IF S = {} THEN <<>>
                 ELSE <<Min(S)>> \o SortedInts(S \ {Min(S)})

SortedNames(S) == SelectSeq(LexOrder, LAMBDA s : s \in S)

RECURSIVE SumOver(_, _)
SumOver(col, I) == IF I = {} THEN 0
                   ELSE LET i == CHOOSE j \in I : TRUE
                        IN  col[i] + SumOver(col, I \ {i})

RECURSIVE SumSeq(_)
SumSeq(s) == IF s = <<>> THEN 0 ELSE Head(s) + SumSeq(Tail(s))

-----------------------------------------------------------------------------
(* Data frames *)

NRows(d) == Len(d["Artista"])
Index(d) == 1 .. NRows(d)

ReadCsv(f) == [c \in f.header |-> [i \in 1 .. Len(f.rows) |-> f.rows[i][c]]]

WithColumn(d, name, col) ==
    [c \in (DOMAIN d) \cup {name} |-> IF c = name THEN col ELSE d[c]]

\* the rows of I, in the order of the frame
RECURSIVE Positions(_, _)
Positions(I, n) == IF n = 0 THEN <<>>
                   ELSE IF n \in I THEN Append(Positions(I, n - 1), n)
                        ELSE Positions(I, n - 1)

Take(d, I) ==
    LET p == Positions(I, NRows(d))
    IN  [c \in DOMAIN d |-> [k \in 1 .. Len(p) |-> d[c][p[k]]]]

NUnique(col, I) == Cardinality({col[i] : i \in I})

SeriesMean(col, I) ==
    IF I = {} THEN NaN ELSE RoundHalfEven(SumOver(col, I), Cardinality(I))

\* groupby(by): the rows of each key
Group(d, by, k) == {i \in Index(d) : d[by][i] = k}

\* .agg({'Precio Promedio': ['sum', 'mean', 'count'], ...}).round(2) of one group
AggRow(d, k, I) ==
    [key               |-> k,
     ValorTotal        |-> SumOver(d["PrecioPromedio"], I),
     PrecioPromedio    |-> SeriesMean(d["PrecioPromedio"], I),
     NumeroDeObras     |-> Cardinality(I),
     NumeroDeArtistas  |-> NUnique(d["Artista"], I),
     NumeroDeGalerias  |-> NUnique(d["Galeria"], I)]

\* groupby(by).agg(...) : one row per key, in the order of the keys
GroupByAgg(d, by, keys) ==
    [j \in 1 .. Len(keys) |-> AggRow(d, keys[j], Group(d, by, keys[j]))]

Column(stats, f) == [j \in 1 .. Len(stats) |-> stats[j][f]]

-----------------------------------------------------------------------------
(* load_data *)

\* bins = [0, 10000, 50000, 200000, inf], in cents; inf is above every price
CutBins == <<0, 10000 * Cent, 50000 * Cent, 200000 * Cent>>
CutLabels == <<"< $10K", "$10K - $50K", "$50K - $200K", "$200K+">>

\* bins.searchsorted(x, side='left'): the number of edges below x
SearchSortedLeft(bins, x) == Cardinality({j \in DOMAIN bins : bins[j] < x})

\* pd.cut(x, bins, labels): right-closed intervals, the lowest edge excluded
PdCut(x) ==
    LET id == SearchSortedLeft(CutBins, x)
    IN  IF id = 0 THEN NaNLabel ELSE CutLabels[id]

PrecioPromedio(d) ==
    [i \in Index(d) |-> ((d["PrecioMinimo"][i] + d["PrecioMaximo"][i]) * Cent) \div 2]

LoadData(f) ==
    LET d0 == ReadCsv(f)
        d1 == WithColumn(d0, "PrecioPromedio", PrecioPromedio(d0))
        d2 == WithColumn(d1, "RangoDePrecios",
                         [i \in Index(d1) |-> PdCut(d1["PrecioPromedio"][i])])
        d3 == WithColumn(d2, "PromedioObrasPorArtista",
                         [i \in Index(d2) |->
                             Ratio(NRows(d2), NUnique(d2["Artista"], Index(d2)))])
    IN  WithColumn(d3, "PromedioObrasPorGaleria",
                   [i \in Index(d3) |->
                       Ratio(NRows(d3), NUnique(d3["Galeria"], Index(d3)))])

-----------------------------------------------------------------------------
(* Aggregates by gallery and by artist *)

\* (count / nunique).round(2), in hundredths
ObrasPorArtista(r) ==
    IF r.NumeroDeArtistas = 0 THEN NaN
    ELSE RoundHalfEven(r.NumeroDeObras * Cent, r.NumeroDeArtistas)

GalleryMetrics(d) ==
    LET g == GroupByAgg(d, "Galeria", SortedNames(Range(d["Galeria"])))
    IN  [j \in 1 .. Len(g) |->
            [key |-> g[j].key, ValorTotal |-> g[j].ValorTotal,
             PrecioPromedio |-> g[j].PrecioPromedio,
             NumeroDeObras |-> g[j].NumeroDeObras,
             NumeroDeArtistas |-> g[j].NumeroDeArtistas,
             ObrasPorArtista |-> ObrasPorArtista(g[j])]]

ArtistMetrics(d) ==
    LET g == GroupByAgg(d, "Artista", SortedNames(Range(d["Artista"])))
    IN  [j \in 1 .. Len(g) |->
            [key |-> g[j].key, ValorTotal |-> g[j].ValorTotal,
             PrecioPromedio |-> g[j].PrecioPromedio,
             NumeroDeObras |-> g[j].NumeroDeObras,
             NumeroDeGalerias |-> g[j].NumeroDeGalerias]]

\* Series.mean() of a column of an aggregate
ColumnMean(col, unit) == Ratio(SumSeq(col), unit * Len(col))

\* lines 183-189: the means over the galleries; 'Obras por Artista' is the column
\* that was rounded to 2 decimals
GallerySummary(g) ==
    [ObrasPorGaleria    |-> ColumnMean(Column(g, "NumeroDeObras"), 1),
     ArtistasPorGaleria |-> ColumnMean(Column(g, "NumeroDeArtistas"), 1),
     ValorPorGaleria    |-> ColumnMean(Column(g, "ValorTotal"), 1),
     ObrasPorArtista    |-> ColumnMean(Column(g, "ObrasPorArtista"), Cent)]

\* sort_values(f, ascending=False): the default sort is not stable, so rows with
\* equal f come out in any order
SortValuesDesc(stats, f) ==
    {[j \in 1 .. Len(stats) |-> stats[p[j]]] :
        p \in {q \in Permutations(1 .. Len(stats)) :
                  \A j, k \in 1 .. Len(stats) :
                      j < k => stats[q[j]][f] >= stats[q[k]][f]}}

\* the charts of the largest groups show head(10) of the sorted aggregate
TopN == 10

HeadRows(stats, n) == SubSeq(stats, 1, IF n < Len(stats) THEN n ELSE Len(stats))

-----------------------------------------------------------------------------
(* Aggregates by year and growth metrics *)

YearValue == [s \in {"2018", "2019"} |-> IF s = "2018" THEN 2018 ELSE 2019]

\* pd.to_numeric(col, errors='coerce')
ToNumeric(col) ==
    [i \in DOMAIN col |-> IF col[i] \in DOMAIN YearValue THEN YearValue[col[i]] ELSE NaN]

\* groupby('Año', dropna=False): the missing key is a group of its own
YearKeys_keepna(col) == SortedInts(Range(col))

\* the keys in the order of their first row
RECURSIVE FirstSeen(_, _)
FirstSeen(col, n) ==
    IF n = 0 THEN <<>>
    ELSE LET before == FirstSeen(col, n - 1)
         IN  IF col[n] = NaN \/ col[n] \in Range(before) THEN before
             ELSE Append(before, col[n])

\* groupby('Año', sort=False): the keys are not sorted
YearKeys_unsorted(col) == FirstSeen(col, Len(col))

\* the keys of groupby('Año'): missing keys are dropped, the others sorted
YearKeys(col) == SortedInts(Range(col) \ {NaN})

YearStats(d) == GroupByAgg(d, "Anio", YearKeys(d["Anio"]))

\* ((s.iloc[-1] / s.iloc[0]) - 1) * 100
Growth(s) == Percent(s[Len(s)] - s[1], s[1])

-----------------------------------------------------------------------------
(* Price segments and premium works *)

SegmentLabels == <<"Basico", "Medio", "Premium", "Ultra Premium">>

\* the values of a column in ascending order
RECURSIVE SortedValues(_, _)
SortedValues(col, I) ==
    IF I = {} THEN <<>>
    ELSE LET i == CHOOSE j \in I : \A k \in I : col[j] <= col[k]
         IN  <<col[i]>> \o SortedValues(col, I \ {i})

\* den * Series.quantile(num / den), linear interpolation between order statistics
QuantileScaled(v, num, den) ==
    LET pos == (Len(v) - 1) * num
        lo  == pos \div den
        r   == pos % den
    IN  IF r = 0 THEN den * v[lo + 1]
        ELSE den * v[lo + 1] + r * (v[lo + 2] - v[lo + 1])

\* the five quartile edges of pd.qcut(q=4), each multiplied by 4
QcutEdges(col) ==
    LET v == SortedValues(col, DOMAIN col)
    IN  [k \in 1 .. 5 |-> QuantileScaled(v, k - 1, 4)]

EdgesUnique(e) == Cardinality(Range(e)) = Len(e)

\* the bin of x: right-closed intervals, the lowest edge included
QcutLabel(e, x) ==
    LET id == IF 4 * x = e[1] THEN 1 ELSE SearchSortedLeft(e, 4 * x)
    IN  IF id = 0 \/ id = Len(e) THEN NaNLabel ELSE SegmentLabels[id]

Qcut(col) == [i \in DOMAIN col |-> QcutLabel(QcutEdges(col), col[i])]

\* 10 * df['Precio Promedio'].quantile(0.9)
PremiumThreshold(col) == QuantileScaled(SortedValues(col, DOMAIN col), 9, 10)

\* df['Precio Promedio'] >= premium_threshold
IsPremium_atleast(x, threshold10) == 10 * x >= threshold10

\* df['Precio Promedio'] > premium_threshold
IsPremium(x, threshold10) == 10 * x > threshold10

PremiumRows(d, threshold10) ==
    {i \in Index(d) : IsPremium(d["PrecioPromedio"][i], threshold10)}

\* groupby on the categorical column: one row per category, also the empty ones
SegmentStats(d) ==
    LET g == GroupByAgg(d, "SegmentoDePrecio", SegmentLabels)
        obras == SumSeq(Column(g, "NumeroDeObras"))
        valor == SumSeq(Column(g, "ValorTotal"))
    IN  [j \in 1 .. Len(g) |->
            [key |-> g[j].key, NumeroDeObras |-> g[j].NumeroDeObras,
             PrecioPromedio |-> g[j].PrecioPromedio,
             ValorTotal |-> g[j].ValorTotal,
             PctObras |-> Percent(g[j].NumeroDeObras, obras),
             PctValor |-> Percent(g[j].ValorTotal, valor)]]

\* groupby(by).agg(...) and the '% Valor' column of the optional dimensions
WithPctValor(g) ==
    LET valor == SumSeq(Column(g, "ValorTotal"))
    IN  [j \in 1 .. Len(g) |->
            [key |-> g[j].key, NumeroDeObras |-> g[j].NumeroDeObras,
             PrecioPromedio |-> g[j].PrecioPromedio,
             ValorTotal |-> g[j].ValorTotal,
             NumeroDeArtistas |-> g[j].NumeroDeArtistas,
             NumeroDeGalerias |-> g[j].NumeroDeGalerias,
             PctValor |-> Percent(g[j].ValorTotal, valor)]]

StatsBy(d, by) == GroupByAgg(d, by, SortedNames(Range(d[by])))

-----------------------------------------------------------------------------
(* Filters *)

WidgetOf == [c \in {"Galeria", "SegmentoDePrecio", "Pais", "Tipo_Artista", "Estado_Venta"} |->
                CASE c = "Galeria" -> "selected_gallery"
                  [] c = "SegmentoDePrecio" -> "selected_price_range"
                  [] c = "Pais" -> "selected_country"
                  [] c = "Tipo_Artista" -> "selected_artist_type"
                  [] c = "Estado_Venta" -> "selected_sale_status"]

SliderStep == 1000 * Cent

\* the values the slider can return: min + k * step up to max, and max
SliderValues(lo, hi) ==
    {lo + k * SliderStep : k \in {j \in 0 .. MaxSliderSteps : lo + j * SliderStep <= hi}}
        \cup {hi}

\* st.slider(value=(min_price, max_price)): the default on a first run
SliderChoices(col) ==
    LET lo == Min(Range(col))
        hi == Max(Range(col))
    IN  IF rerun
        THEN {p \in SliderValues(lo, hi) \X SliderValues(lo, hi) : p[1] <= p[2]}
        ELSE {<<lo, hi>>}

\* st.multiselect(options=sorted(col.unique()), default=[])
MultiselectChoices(col) == IF rerun THEN SUBSET Range(col) ELSE {{}}

\* the columns that have a multiselect
FilterColumns(d) == {"Galeria", "SegmentoDePrecio"} \cup (Optional \cap DOMAIN d)

ChoicesOf(d, c) == IF c \in DOMAIN d THEN MultiselectChoices(d[c]) ELSE {{}}

\* every binding of the widget variables the block can end with
WidgetChoices(d) ==
    {[n \in {WidgetOf[c] : c \in FilterColumns(d)} |->
         CASE n = "selected_gallery" -> g
           [] n = "selected_price_range" -> s
           [] n = "selected_country" -> p
           [] n = "selected_artist_type" -> t
           [] n = "selected_sale_status" -> e] :
        g \in ChoicesOf(d, "Galeria"), s \in ChoicesOf(d, "SegmentoDePrecio"),
        p \in ChoicesOf(d, "Pais"), t \in ChoicesOf(d, "Tipo_Artista"),
        e \in ChoicesOf(d, "Estado_Venta")}

\* `mask &= col.isin(selected)` without the test of the selection
PassesSelection_always(v, sel) == v \in sel

\* `if selected: mask &= col.isin(selected)`
PassesSelection(v, sel) == sel = {} \/ v \in sel

\* (x > price_range[0]) & (x < price_range[1])
PassesRange_exclusive(x, range) == x > range[1] /\ x < range[2]

\* (x >= price_range[0]) & (x <= price_range[1])
PassesRange(x, range) == x >= range[1] /\ x <= range[2]

Mask(d, sel, range) ==
    [i \in Index(d) |->
        /\ PassesSelection(d["Galeria"][i], sel["selected_gallery"])
        /\ PassesRange(d["PrecioPromedio"][i], range)
        /\ PassesSelection(d["SegmentoDePrecio"][i], sel["selected_price_range"])
        /\ \A c \in Optional \cap DOMAIN d : PassesSelection(d[c][i], sel[WidgetOf[c]])]

\* a widget variable the filter block reads without it being bound
UnboundRead(d, sel) ==
    \E c \in {"Galeria", "SegmentoDePrecio"} \cup (Optional \cap DOMAIN d) :
        WidgetOf[c] \notin DOMAIN sel

\* the summary of the whole table instead of the subset
Summary_unfiltered(d) ==
    [Obras      |-> NRows(df),
     Galerias   |-> NUnique(df["Galeria"], Index(df)),
     Artistas   |-> NUnique(df["Artista"], Index(df)),
     ValorTotal |-> SumOver(df["PrecioPromedio"], Index(df))]

Summary(d) ==
    [Obras      |-> NRows(d),
     Galerias   |-> NUnique(d["Galeria"], Index(d)),
     Artistas   |-> NUnique(d["Artista"], Index(d)),
     ValorTotal |-> SumOver(d["PrecioPromedio"], Index(d))]

-----------------------------------------------------------------------------
(* The script, block by block *)

Unset == <<>>

Emit(elements) == page' = page \o elements

Raise(exception) == /\ pc' = "error"
                    /\ error' = exception

Goto(block) == /\ pc' = block
               /\ error' = error

\* lines 8-15: page configuration, title and introduction
Header ==
    /\ pc = "header"
    /\ Emit(<<"title", "intro">>)
    /\ Goto("load_data")
    /\ UNCHANGED <<csv, rerun, gallery_summary, df, kpis, gallery_metrics, artist_metrics, year_stats,
                   crecimiento, premium, segment_stats, region_stats,
                   artist_type_stats, ventas, selected, mask, df_filtered, resumen>>

\* lines 18-46: df = load_data()
Load ==
    /\ pc = "load_data"
    /\ IF {"Artista", "Galeria", "PrecioMinimo", "PrecioMaximo"} \subseteq csv.header
       THEN /\ df' = LoadData(csv)
            /\ Goto("kpis")
       ELSE /\ df' = df
            /\ Raise("KeyError")
    /\ UNCHANGED <<csv, rerun, gallery_summary, page, kpis, gallery_metrics, artist_metrics, year_stats,
                   crecimiento, premium, segment_stats, region_stats,
                   artist_type_stats, ventas, selected, mask, df_filtered, resumen>>

\* lines 48-121: the main metrics and the price histogram
MainKPIs ==
    /\ pc = "kpis"
    /\ kpis' = [TotalObras    |-> NRows(df),
                TotalArtistas |-> NUnique(df["Artista"], Index(df)),
                TotalGalerias |-> NUnique(df["Galeria"], Index(df)),
                VolumenTotal  |-> SumOver(df["PrecioPromedio"], Index(df)),
                PrecioMinimo  |-> Min(Range(df["PrecioPromedio"])),
                PrecioMaximo  |-> Max(Range(df["PrecioPromedio"])),
                ObrasPorArtista |-> Ratio(NRows(df), NUnique(df["Artista"], Index(df))),
                ObrasPorGaleria |-> Ratio(NRows(df), NUnique(df["Galeria"], Index(df))),
                ValorPorObra  |-> Ratio(SumOver(df["PrecioPromedio"], Index(df)), NRows(df))]
    /\ Emit(<<"kpis", "histogram">>)
    /\ Goto("galleries")
    /\ UNCHANGED <<csv, rerun, gallery_summary, df, gallery_metrics, artist_metrics, year_stats,
                   crecimiento, premium, segment_stats, region_stats,
                   artist_type_stats, ventas, selected, mask, df_filtered, resumen>>

\* lines 123-230: gallery_metrics, its charts and its table
GalleryAnalysis ==
    /\ pc = "galleries"
    /\ gallery_metrics' \in SortValuesDesc(GalleryMetrics(df), "ValorTotal")
    /\ gallery_summary' = GallerySummary(gallery_metrics')
    /\ Emit(<<"galleries">>)
    /\ Goto("artists")
    /\ UNCHANGED <<csv, rerun, df, kpis, artist_metrics, year_stats,
                   crecimiento, premium, segment_stats, region_stats,
                   artist_type_stats, ventas, selected, mask, df_filtered, resumen>>

\* lines 232-346: artist_metrics, its charts and its table
ArtistAnalysis ==
    /\ pc = "artists"
    /\ artist_metrics' \in SortValuesDesc(ArtistMetrics(df), "ValorTotal")
    /\ Emit(<<"artists">>)
    /\ Goto("years")
    /\ UNCHANGED <<csv, rerun, gallery_summary, df, kpis, gallery_metrics, year_stats,
                   crecimiento, premium, segment_stats, region_stats,
                   artist_type_stats, ventas, selected, mask, df_filtered, resumen>>

\* lines 348-358: the year column is coerced in place, then year_stats
TemporalPrep ==
    /\ pc = "years"
    /\ df' = WithColumn(df, "Anio", ToNumeric(df["Anio"]))
    /\ year_stats' = YearStats(df')
    /\ Emit(<<"years">>)
    /\ Goto("growth")
    /\ UNCHANGED <<csv, rerun, gallery_summary, kpis, gallery_metrics, artist_metrics,
                   crecimiento, premium, segment_stats, region_stats,
                   artist_type_stats, ventas, selected, mask, df_filtered, resumen>>

\* lines 360-470: the growth metrics (iloc on an empty frame raises), the year charts
GrowthMetrics ==
    /\ pc = "growth"
    /\ IF Len(year_stats) = 0
       THEN /\ Raise("IndexError")
            /\ UNCHANGED <<crecimiento, page>>
       ELSE /\ crecimiento' =
                   [Obras    |-> Growth(Column(year_stats, "NumeroDeObras")),
                    Precio   |-> Growth(Column(year_stats, "PrecioPromedio")),
                    Artistas |-> Growth(Column(year_stats, "NumeroDeArtistas")),
                    Galerias |-> Growth(Column(year_stats, "NumeroDeGalerias"))]
            /\ Emit(<<"growth", "year_charts">>)
            /\ Goto("segments")
    /\ UNCHANGED <<csv, rerun, gallery_summary, df, kpis, gallery_metrics, artist_metrics, year_stats,
                   premium, segment_stats, region_stats,
                   artist_type_stats, ventas, selected, mask, df_filtered, resumen>>

\* lines 472-483: the segment column (qcut raises on repeated edges), the premium works
Segmentation ==
    /\ pc = "segments"
    /\ IF EdgesUnique(QcutEdges(df["PrecioPromedio"]))
       THEN /\ df' = WithColumn(df, "SegmentoDePrecio", Qcut(df["PrecioPromedio"]))
            /\ premium' =
                   [threshold10 |-> PremiumThreshold(df["PrecioPromedio"]),
                    works |-> PremiumRows(df, PremiumThreshold(df["PrecioPromedio"]))]
            /\ Emit(<<"market">>)
            /\ Goto("premium")
       ELSE /\ Raise("ValueError")
            /\ Emit(<<"market">>)
            /\ UNCHANGED <<df, premium>>
    /\ UNCHANGED <<csv, rerun, gallery_summary, kpis, gallery_metrics, artist_metrics, year_stats,
                   crecimiento, segment_stats, region_stats,
                   artist_type_stats, ventas, selected, mask, df_filtered, resumen>>

\* lines 485-499: the metrics of the premium works
PremiumMetrics ==
    /\ pc = "premium"
    /\ premium' =
           LET valor == SumOver(df["PrecioPromedio"], premium.works)
           IN  [threshold10 |-> premium.threshold10,
                works |-> premium.works,
                precio_medio_premium |-> Ratio(valor, Cardinality(premium.works)),
                obras_premium |-> Cardinality(premium.works),
                valor_premium |-> valor,
                participacion_premium |->
                    Percent(valor, SumOver(df["PrecioPromedio"], Index(df)))]
    /\ Emit(<<"premium">>)
    /\ Goto("segment_stats")
    /\ UNCHANGED <<csv, rerun, gallery_summary, df, kpis, gallery_metrics, artist_metrics, year_stats,
                   crecimiento, segment_stats, region_stats,
                   artist_type_stats, ventas, selected, mask, df_filtered, resumen>>

\* lines 501-557: segment_stats and its charts
SegmentAnalysis ==
    /\ pc = "segment_stats"
    /\ segment_stats' = SegmentStats(df)
    /\ Emit(<<"segment_charts">>)
    /\ Goto("regions")
    /\ UNCHANGED <<csv, rerun, gallery_summary, df, kpis, gallery_metrics, artist_metrics, year_stats,
                   crecimiento, premium, region_stats,
                   artist_type_stats, ventas, selected, mask, df_filtered, resumen>>

\* lines 559-606: region_stats, if the file has a country column
RegionAnalysis ==
    /\ pc = "regions"
    /\ IF "Pais" \in DOMAIN df
       THEN /\ region_stats' = WithPctValor(StatsBy(df, "Pais"))
            /\ Emit(<<"regions">>)
       ELSE UNCHANGED <<region_stats, page>>
    /\ Goto("artist_types")
    /\ UNCHANGED <<csv, rerun, gallery_summary, df, kpis, gallery_metrics, artist_metrics, year_stats,
                   crecimiento, premium, segment_stats,
                   artist_type_stats, ventas, selected, mask, df_filtered, resumen>>

\* lines 608-648: artist_type_stats, if the file has an artist type column
ArtistTypeAnalysis ==
    /\ pc = "artist_types"
    /\ IF "Tipo_Artista" \in DOMAIN df
       THEN /\ artist_type_stats' = WithPctValor(StatsBy(df, "Tipo_Artista"))
            /\ Emit(<<"artist_types">>)
       ELSE UNCHANGED <<artist_type_stats, page>>
    /\ Goto("sales")
    /\ UNCHANGED <<csv, rerun, gallery_summary, df, kpis, gallery_metrics, artist_metrics, year_stats,
                   crecimiento, premium, segment_stats, region_stats,
                   ventas, selected, mask, df_filtered, resumen>>

\* ventas_stats.loc['Vendida', 'Valor Total']: a KeyError if no group has that key
ValorTotalVendido(stats) ==
    IF \E j \in DOMAIN stats : stats[j].key = "Vendida"
    THEN (CHOOSE r \in Range(stats) : r.key = "Vendida").ValorTotal
    ELSE NaN

HasKey(stats, k) == \E j \in DOMAIN stats : stats[j].key = k

\* lines 650-685: the sale status block, if the file has a sale status column
SalesAnalysis ==
    /\ pc = "sales"
    /\ IF "Estado_Venta" \in DOMAIN df
       THEN LET stats == StatsBy(df, "Estado_Venta")
                vendidas == Cardinality(Group(df, "Estado_Venta", "Vendida"))
            IN  IF HasKey(stats, "Vendida")
                THEN /\ ventas' = [ventas_stats |-> stats,
                                   total_obras |-> NRows(df),
                                   obras_vendidas |-> vendidas,
                                   tasa_venta |-> Percent(vendidas, NRows(df)),
                                   valor_vendido |-> ValorTotalVendido(stats)]
                     /\ Emit(<<"sales_chart", "tasa_venta", "obras_vendidas", "valor_vendido">>)
                     /\ Goto("segment_details")
                ELSE /\ ventas' = [ventas_stats |-> stats,
                                   total_obras |-> NRows(df),
                                   obras_vendidas |-> vendidas,
                                   tasa_venta |-> Percent(vendidas, NRows(df))]
                     /\ Emit(<<"sales_chart", "tasa_venta", "obras_vendidas">>)
                     /\ Raise("KeyError")
       ELSE /\ UNCHANGED <<ventas, page>>
            /\ Goto("segment_details")
    /\ UNCHANGED <<csv, rerun, gallery_summary, df, kpis, gallery_metrics, artist_metrics, year_stats,
                   crecimiento, premium, segment_stats, region_stats,
                   artist_type_stats, selected, mask, df_filtered, resumen>>

\* lines 687-698: the table of segment_stats
SegmentDetails ==
    /\ pc = "segment_details"
    /\ Emit(<<"segment_details">>)
    /\ Goto("widgets")
    /\ UNCHANGED <<csv, rerun, gallery_summary, df, kpis, gallery_metrics, artist_metrics, year_stats,
                   crecimiento, premium, segment_stats, region_stats,
                   artist_type_stats, ventas, selected, mask, df_filtered, resumen>>

\* lines 700-770: the widgets bind the selections of the user
FilterWidgets ==
    /\ pc = "widgets"
    /\ \E s \in WidgetChoices(df) : \E r \in SliderChoices(df["PrecioPromedio"]) :
           selected' = [n \in (DOMAIN s) \cup {"price_range"} |->
                           IF n = "price_range" THEN r ELSE s[n]]
    /\ Emit(<<"widgets">>)
    /\ Goto("apply_filters")
    /\ UNCHANGED <<csv, rerun, gallery_summary, df, kpis, gallery_metrics, artist_metrics, year_stats,
                   crecimiento, premium, segment_stats, region_stats,
                   artist_type_stats, ventas, mask, df_filtered, resumen>>

\* lines 772-792: mask and df_filtered
ApplyFilters ==
    /\ pc = "apply_filters"
    /\ IF UnboundRead(df, selected)
       THEN /\ Raise("NameError")
            /\ UNCHANGED <<mask, df_filtered>>
       ELSE /\ mask' = Mask(df, selected, selected["price_range"])
            /\ df_filtered' = Take(df, {i \in Index(df) : mask'[i]})
            /\ Goto("summary")
    /\ UNCHANGED <<csv, rerun, gallery_summary, page, df, kpis, gallery_metrics, artist_metrics, year_stats,
                   crecimiento, premium, segment_stats, region_stats,
                   artist_type_stats, ventas, selected, resumen>>

\* lines 794-818: the summary metrics and the table of the filtered subset
FilterSummary ==
    /\ pc = "summary"
    /\ resumen' = Summary(df_filtered)
    /\ Emit(<<"summary", "filtered_table">>)
    /\ Goto("done")
    /\ UNCHANGED <<csv, rerun, gallery_summary, df, kpis, gallery_metrics, artist_metrics, year_stats,
                   crecimiento, premium, segment_stats, region_stats,
                   artist_type_stats, ventas, selected, mask, df_filtered>>

Next ==
    \/ Header
    \/ Load
    \/ MainKPIs
    \/ GalleryAnalysis
    \/ ArtistAnalysis
    \/ TemporalPrep
    \/ GrowthMetrics
    \/ Segmentation
    \/ PremiumMetrics
    \/ SegmentAnalysis
    \/ RegionAnalysis
    \/ ArtistTypeAnalysis
    \/ SalesAnalysis
    \/ SegmentDetails
    \/ FilterWidgets
    \/ ApplyFilters
    \/ FilterSummary

-----------------------------------------------------------------------------
(* The files and sessions a run starts from *)

Row(artista, galeria, precios, anio, pais, tipo, estado) ==
    [Artista |-> artista, Galeria |-> galeria,
     PrecioMinimo |-> precios[1], PrecioMaximo |-> precios[2], Anio |-> anio,
     Pais |-> pais, Tipo_Artista |-> tipo, Estado_Venta |-> estado]

\* the state before the first line of the script, for a file and a session
Start(file, session) ==
    /\ csv = file
    /\ rerun = session
    /\ pc = "header"
    /\ error = "none"
    /\ page = <<>>
    /\ df = Unset
    /\ kpis = Unset
    /\ gallery_metrics = Unset
    /\ gallery_summary = Unset
    /\ artist_metrics = Unset
    /\ year_stats = Unset
    /\ crecimiento = Unset
    /\ premium = Unset
    /\ segment_stats = Unset
    /\ region_stats = Unset
    /\ artist_type_stats = Unset
    /\ ventas = Unset
    /\ selected = Unset
    /\ mask = Unset
    /\ df_filtered = Unset
    /\ resumen = Unset

Files(headers, rows, maxlen) ==
    {[header |-> h, rows |-> r] :
        h \in headers, r \in UNION {[1 .. n -> rows] : n \in 1 .. maxlen}}

\* the optional attributes of a work go together
Profiles == {<<"HK", "Emergente", "Vendida">>, <<"CN", "Establecido", "Reservada">>}

\* a user exploring files of a few works with any subset of the optional columns
FilterPrices == {<<10000, 10000>>, <<10000, 14000>>}

FilterRows == {Row("A", g, p, "2018", o[1], o[2], o[3]) :
                  g \in {"G1", "G2"}, p \in FilterPrices, o \in Profiles}

Init ==
    \E f \in Files({Required \cup o : o \in SUBSET Optional}, FilterRows, MaxRowsFilter) :
        Start(f, TRUE)

Spec == Init /\ [][Next]_vars

\* first runs over files whose prices lie on, between and beyond the edges of the
\* price ranges
DerivePrices == {<<0, 0>>, <<5000, 15000>>, <<20000, 40000>>, <<50000, 50000>>,
                 <<150000, 250000>>, <<300000, 300000>>}

DeriveRows == {Row("A", "G1", p, "2018", "", "", "") : p \in DerivePrices}

InitDerive ==
    \E f \in Files({Required}, DeriveRows, MaxRowsDerive) : Start(f, FALSE)

SpecDerive == InitDerive /\ [][Next]_vars

\* first runs over files whose works differ in artist, gallery and year, the year
\* of some being no number; a work has the price of its artist at its gallery and
\* the attributes of its artist
PriceOf == [a \in {"A", "B"} |-> [g \in {"G1", "G2"} |->
               CASE a = "A" /\ g = "G1" -> <<10000, 20000>>
                 [] a = "A" /\ g = "G2" -> <<20000, 30000>>
                 [] a = "B" /\ g = "G1" -> <<40000, 60000>>
                 [] a = "B" /\ g = "G2" -> <<60000, 100000>>]]

ProfileOf == [a \in {"A", "B"} |-> IF a = "A" THEN <<"HK", "Emergente", "Vendida">>
                                       ELSE <<"CN", "Establecido", "Reservada">>]

YearRows == {Row(a, g, PriceOf[a][g], y, ProfileOf[a][1], ProfileOf[a][2], ProfileOf[a][3]) :
                a \in {"A", "B"}, g \in {"G1", "G2"}, y \in {"2018", "2019", "s/f"}}

InitYear ==
    \E f \in Files({Required, Required \cup Optional}, YearRows, MaxRowsYear) :
        Start(f, FALSE)

SpecYear == InitYear /\ [][Next]_vars

\* first runs over files of 10 works: the k-th work costs k thousand or, tying
\* with the next one, k + 1 thousand; the works come in ascending or descending order
LadderRow(k, tie) ==
    Row("A", "G1", <<(k + tie) * 1000, (k + tie) * 1000>>, "2018", "", "", "")

LadderFiles ==
    {[header |-> Required,
      rows |-> [i \in 1 .. 10 |->
                   LET k == IF up THEN i ELSE 11 - i
                   IN  LadderRow(k, IF k = 10 THEN 0 ELSE ties[k])]] :
        ties \in [1 .. 9 -> {0, 1}], up \in BOOLEAN}

InitPremium == \E f \in LadderFiles : Start(f, FALSE)

SpecPremium == InitPremium /\ [][Next]_vars

\* first runs over files that lack one or both of the price columns, or neither;
\* what a row holds under a name that is not in the header is not in the file
SchemaHeaders == {Required \ missing : missing \in SUBSET {"PrecioMinimo", "PrecioMaximo"}}

InitSchema ==
    \E f \in Files(SchemaHeaders, DeriveRows, MaxRowsSchema) : Start(f, FALSE)

SpecSchema == InitSchema /\ [][Next]_vars

\* first runs over files of the works of three artists at two galleries
RoundPriceOf == [a \in {"A", "B", "C"} |-> [g \in {"G1", "G2"} |->
                    IF a = "C" THEN (IF g = "G1" THEN <<100000, 100000>>
                                     ELSE <<120000, 120000>>)
                    ELSE PriceOf[a][g]]]

RoundRows == {Row(a, g, RoundPriceOf[a][g], "2018", "", "", "") :
                 a \in {"A", "B", "C"}, g \in {"G1", "G2"}}

InitRound ==
    \E f \in Files({Required}, RoundRows, MaxRowsRound) : Start(f, FALSE)

SpecRound == InitRound /\ [][Next]_vars

-----------------------------------------------------------------------------
(* Properties *)

Ran(element) == element \in Range(page)
Loaded == df # Unset

\* the label of the half-open interval [edge, next edge) that holds x
HalfOpenLabel(x) == CutLabels[Cardinality({j \in DOMAIN CutBins : CutBins[j] <= x})]

\* C1: every loaded row carries the price range whose half-open interval
\* [0,10000), [10000,50000), [50000,200000), [200000,inf) holds its average price,
\* a price on an edge belonging to the upper range.
C1_HalfOpenRanges ==
    Loaded => \A i \in Index(df) :
                  df["RangoDePrecios"][i] = HalfOpenLabel(df["PrecioPromedio"][i])

Segmented == Loaded /\ "SegmentoDePrecio" \in DOMAIN df

SegmentSize(label) == Cardinality({i \in Index(df) : df["SegmentoDePrecio"][i] = label})

\* C2: once the segment column exists every row has one of the four segments and
\* the sizes of the four segments differ by at most (number of rows) mod 4.
C2_QuartileSizes ==
    Segmented =>
        /\ \A i \in Index(df) : df["SegmentoDePrecio"][i] \in Range(SegmentLabels)
        /\ \A a, b \in Range(SegmentLabels) :
               SegmentSize(a) - SegmentSize(b) <= NRows(df) % 4

Obras(stats) == SumSeq(Column(stats, "NumeroDeObras"))

ValidYearRows == {i \in Index(df) : df["Anio"][i] # NaN}

\* C3 as stated: the counts of every aggregate computed so far sum to the number
\* of rows of the table.
C3_CountsSumToRows ==
    /\ gallery_metrics # Unset => Obras(gallery_metrics) = NRows(df)
    /\ artist_metrics # Unset => Obras(artist_metrics) = NRows(df)
    /\ Ran("years") => Obras(year_stats) = NRows(df)
    /\ segment_stats # Unset => Obras(segment_stats) = NRows(df)
    /\ region_stats # Unset => Obras(region_stats) = NRows(df)
    /\ artist_type_stats # Unset => Obras(artist_type_stats) = NRows(df)
    /\ ventas # Unset => Obras(ventas.ventas_stats) = NRows(df)

\* C3 amended: the counts of every aggregate computed so far sum to the number of
\* rows that have a group key: all rows for gallery, artist, segment, country,
\* artist type and sale status, the rows with a parsable year for the year.
C3_CountsSumToKeyedRows ==
    /\ gallery_metrics # Unset => Obras(gallery_metrics) = NRows(df)
    /\ artist_metrics # Unset => Obras(artist_metrics) = NRows(df)
    /\ Ran("years") => Obras(year_stats) = Cardinality(ValidYearRows)
    /\ segment_stats # Unset => Obras(segment_stats) = NRows(df)
    /\ region_stats # Unset => Obras(region_stats) = NRows(df)
    /\ artist_type_stats # Unset => Obras(artist_type_stats) = NRows(df)
    /\ ventas # Unset => Obras(ventas.ventas_stats) = NRows(df)

C3_Witness ==
    /\ pc = "done"
    /\ "Pais" \in DOMAIN df
    /\ Len(year_stats) = 2
    /\ Len(gallery_metrics) = 2
    /\ Obras(year_stats) < NRows(df)

\* the selection of a dimension; a dimension without widget has none
Selection(c) == IF WidgetOf[c] \in DOMAIN selected THEN selected[WidgetOf[c]] ELSE {}

Matches(i) ==
    /\ selected["price_range"][1] <= df["PrecioPromedio"][i]
    /\ df["PrecioPromedio"][i] <= selected["price_range"][2]
    /\ \A c \in DOMAIN WidgetOf :
           Selection(c) # {} => c \in DOMAIN df /\ df[c][i] \in Selection(c)

Matching == {i \in Index(df) : Matches(i)}

\* the k-th row of a set of rows, in the order of the table
Nth(I, k) == CHOOSE i \in I : Cardinality({j \in I : j < i}) = k - 1

IsSubset(sub, I) ==
    /\ DOMAIN sub = DOMAIN df
    /\ \A c \in DOMAIN df :
           /\ Len(sub[c]) = Cardinality(I)
           /\ \A k \in 1 .. Cardinality(I) : sub[c][k] = df[c][Nth(I, k)]

Filtered == pc \in {"summary", "done"}

\* C4: a row is in the filtered subset iff its average price is within the price
\* range, bounds included, and its value is in the selection of every dimension
\* whose selection is not empty.
C4_FilterIsConjunction ==
    Filtered => /\ \A i \in Index(df) : mask[i] <=> Matches(i)
                /\ IsSubset(df_filtered, Matching)

C4_Witness ==
    /\ pc = "done"
    /\ Optional \subseteq DOMAIN df
    /\ selected["selected_country"] # {}
    /\ selected["selected_sale_status"] = {}
    /\ selected["selected_gallery"] # {}
    /\ selected["price_range"][1] = selected["price_range"][2]
    /\ Cardinality(Matching) = 1
    /\ NRows(df) = 2

DefaultSelections ==
    /\ \A c \in DOMAIN WidgetOf : Selection(c) = {}
    /\ selected["price_range"] = <<Min(Range(df["PrecioPromedio"])),
                                   Max(Range(df["PrecioPromedio"]))>>

\* C5: with every selection empty and the price range at [min, max] the filtered
\* subset is the table: the same columns and the same rows in the same order.
C5_DefaultsKeepTable ==
    (Filtered /\ DefaultSelections) => df_filtered = df

C5_Witness ==
    /\ pc = "done"
    /\ DefaultSelections
    /\ Optional \subseteq DOMAIN df
    /\ df["Galeria"] = <<"G2", "G1">>
    /\ NRows(df_filtered) = 2

YearsPresent == {df["Anio"][i] : i \in ValidYearRows}

RowsOfYear(y) == {i \in Index(df) : df["Anio"][i] = y}

\* the value of a year in the year aggregate
ValueAt(y, f) == (CHOOSE r \in Range(year_stats) : r.key = y)[f]

GrowthBetween(first, last, f) ==
    Percent(ValueAt(last, f) - ValueAt(first, f), ValueAt(first, f))

\* C6: each growth metric is (value at the largest valid year / value at the
\* smallest valid year - 1) x 100 whatever the order of the rows, the works of a
\* year being the rows of that year; works {2018: 100, 2019: 150} give 50.
C6_GrowthFromMinToMaxYear ==
    /\ Growth(<<100, 150>>) = [num |-> 50, den |-> 1]
    /\ crecimiento # Unset =>
           LET first == Min(YearsPresent)
               last  == Max(YearsPresent)
           IN  /\ crecimiento.Obras =
                      Percent(Cardinality(RowsOfYear(last)) - Cardinality(RowsOfYear(first)),
                              Cardinality(RowsOfYear(first)))
               /\ crecimiento.Precio = GrowthBetween(first, last, "PrecioPromedio")
               /\ crecimiento.Artistas = GrowthBetween(first, last, "NumeroDeArtistas")
               /\ crecimiento.Galerias = GrowthBetween(first, last, "NumeroDeGalerias")

C6_Witness ==
    /\ crecimiento # Unset
    /\ df["Anio"] = <<2019, 2018, 2018>>
    /\ crecimiento.Obras = [num |-> -50, den |-> 1]
    /\ crecimiento.Precio.num # 0

Undefined(x) == x.den = 0

\* C7: with fewer than 2 distinct valid years the growth block raises nothing and
\* reports every growth metric as undefined.
C7_GrowthUndefinedBelowTwoYears ==
    (Ran("years") /\ pc # "growth" /\ Cardinality(YearsPresent) < 2) =>
        /\ error # "IndexError"
        /\ crecimiento # Unset
        /\ \A m \in DOMAIN crecimiento : Undefined(crecimiento[m])

PremiumDone == Ran("premium")

Precios == df["PrecioPromedio"]
Top == Max(Range(Precios))
TopRows == {i \in Index(df) : Precios[i] = Top}
Total == SumOver(Precios, Index(df))

\* C8 as stated: on a table of 10 prices the premium set is exactly one row, a row
\* of the largest price, and '% Valor Premium' is that price / total x 100.
C8_TopOneOfTen ==
    (PremiumDone /\ NRows(df) = 10) =>
        /\ Cardinality(premium.works) = 1
        /\ premium.works \subseteq TopRows
        /\ premium.participacion_premium = Percent(Top, Total)

\* the second largest of the prices, counted with repetition
Second == IF Cardinality(TopRows) > 1 THEN Top ELSE Max(Range(Precios) \ {Top})

\* C8 amended: on a table of 10 prices the premium set is the rows strictly above
\* the 90th percentile, second + 0.1 x (top - second): exactly the one row of the
\* largest price when that price occurs once ('% Valor Premium' = that price /
\* total x 100), and no row when it occurs more than once ('% Valor Premium' = 0).
C8_TopOneOfTenIfUnique ==
    (PremiumDone /\ NRows(df) = 10) =>
        /\ premium.works = {i \in Index(df) : 10 * Precios[i] > 9 * Second + Top}
        /\ Cardinality(TopRows) = 1 =>
               /\ premium.works = TopRows
               /\ premium.participacion_premium = Percent(Top, Total)
        /\ Cardinality(TopRows) > 1 =>
               /\ premium.works = {}
               /\ premium.participacion_premium = [num |-> 0, den |-> 1]

C8_Witness ==
    /\ pc = "done"
    /\ NRows(df) = 10
    /\ premium.obras_premium = 1
    /\ premium.valor_premium = 10000 * Cent
    /\ Precios[1] = 10000 * Cent
    /\ Cardinality(Range(Precios)) < 10

NoSold == /\ Loaded
          /\ "Estado_Venta" \in DOMAIN df
          /\ \A i \in Index(df) : df["Estado_Venta"][i] # "Vendida"

\* C9: with a sale status column in which no row is 'Vendida', the sale status
\* block raises nothing.
C9_NoSoldIsGraceful ==
    NoSold => error # "KeyError"

Bound == selected # Unset

\* C10: when the selections match no row, the filter block and the summary raise
\* nothing, the subset is empty and the summary reports 0 works, 0 galleries,
\* 0 artists and a total value of 0.
C10_EmptySubsetIsZero ==
    (Bound /\ Matching = {}) =>
        /\ error = "none"
        /\ Filtered => NRows(df_filtered) = 0
        /\ pc = "done" => resumen = [Obras |-> 0, Galerias |-> 0, Artistas |-> 0,
                                     ValorTotal |-> 0]

C10_Witness ==
    /\ pc = "done"
    /\ Matching = {}
    /\ selected["selected_gallery"] # {}
    /\ selected["selected_price_range"] # {}
    /\ selected["price_range"] = <<Min(Range(Precios)), Max(Range(Precios))>>

LoadFailed == pc = "error" /\ ~Loaded

\* C11: a run whose load step fails has emitted nothing to the page: no title,
\* text, metric or chart.
C11_NoPartialRender ==
    LoadFailed => page = <<>>

RatAdd(a, b) == Ratio(a.num * b.den + b.num * a.den, a.den * b.den)

RECURSIVE RatSum(_)
RatSum(q) == IF q = <<>> THEN [num |-> 0, den |-> 1] ELSE RatAdd(Head(q), RatSum(Tail(q)))

RatMean(q) == LET t == RatSum(q) IN Ratio(t.num, t.den * Len(q))

\* per gallery, works / distinct artists and the sum of the prices, not rounded
ExactObrasPorArtista ==
    [j \in DOMAIN gallery_metrics |->
        LET I == Group(df, "Galeria", gallery_metrics[j].key)
        IN  Ratio(Cardinality(I), NUnique(df["Artista"], I))]

ExactValor(stats, by) ==
    [j \in DOMAIN stats |-> SumOver(df["PrecioPromedio"], Group(df, by, stats[j].key))]

\* C12: the summary means and the percentage-of-total columns equal the values
\* computed from the unrounded per-group ratios and sums: the mean works-per-artist
\* over the galleries is the mean of works / distinct artists, '% Valor' of a
\* segment is its unrounded total / the unrounded grand total x 100.
C12_RoundingNotFedBack ==
    /\ gallery_summary # Unset =>
           gallery_summary.ObrasPorArtista = RatMean(ExactObrasPorArtista)
    /\ segment_stats # Unset =>
           \A j \in DOMAIN segment_stats :
               segment_stats[j].PctValor =
                   Percent(ExactValor(segment_stats, "SegmentoDePrecio")[j],
                           SumOver(df["PrecioPromedio"], Index(df)))

\* the printed form of a column: text and numbers are told apart
Printed(column) == ToString(column)

\* a step leaves the loaded table as it is: the same columns holding the same values
TableUntouched ==
    /\ DOMAIN df' = DOMAIN df
    /\ \A c \in DOMAIN df : Printed(df'[c]) = Printed(df[c])

\* C13: once load_data has returned, no step of the run adds, replaces or removes
\* a column or a row of the table.
C13_TableImmutable ==
    [][Loaded => TableUntouched]_vars

LexPos(name) == CHOOSE j \in DOMAIN LexOrder : LexOrder[j] = name

\* t lists the n largest groups of stats by total value, largest first, groups of
\* equal total value by name
IsTopByValue(t, stats, n) ==
    /\ Len(t) = (IF n < Len(stats) THEN n ELSE Len(stats))
    /\ Range(t) \subseteq Range(stats)
    /\ \A r \in Range(stats) \ Range(t) :
           \A j \in DOMAIN t : t[j].ValorTotal >= r.ValorTotal
    /\ \A j, k \in DOMAIN t :
           j < k => \/ t[j].ValorTotal > t[k].ValorTotal
                    \/ /\ t[j].ValorTotal = t[k].ValorTotal
                       /\ LexPos(t[j].key) < LexPos(t[k].key)

\* C14: the top-10 lists of galleries and of artists hold the 10 groups of largest
\* total value in descending order, groups of equal total value in the
\* lexicographic order of their names.
C14_TopTenTiesByName ==
    /\ gallery_metrics # Unset =>
           IsTopByValue(HeadRows(gallery_metrics, TopN), gallery_metrics, TopN)
    /\ artist_metrics # Unset =>
           IsTopByValue(HeadRows(artist_metrics, TopN), artist_metrics, TopN)

\* the aggregate of an optional column
StatsOf(c) == CASE c = "Pais" -> region_stats
                [] c = "Tipo_Artista" -> artist_type_stats
                [] c = "Estado_Venta" -> ventas

\* the aggregate of an optional column is computed, and its widget bound, if and
\* only if the file has the column
EvaluatedIffPresent ==
    \A c \in Optional :
        /\ StatsOf(c) # Unset => c \in DOMAIN df
        /\ Bound => (WidgetOf[c] \in DOMAIN selected <=> c \in DOMAIN df)
        /\ pc = "done" => (StatsOf(c) # Unset <=> c \in DOMAIN df)

\* C15: whichever optional columns the file has, the blocks of the optional
\* dimensions and the filter step raise nothing; the aggregate of an optional
\* column is computed, and its widget bound, if and only if the column is present.
C15_OptionalColumnsAreSafe ==
    /\ Loaded => error \notin {"KeyError", "NameError"}
    /\ EvaluatedIffPresent

\* the only error of these blocks is the lookup of the 'Vendida' group
OnlyVendidaLookupRaises ==
    /\ (Loaded /\ ~NoSold) => error \notin {"KeyError", "NameError"}
    /\ EvaluatedIffPresent

====
